---------------------------- MODULE Spec2Model ----------------------------
(***************************************************************************)
(* A model of the kaleidoscope renderer: KaleidoscopeService (the service  *)
(* with palette transitions, rotating shapes and the particle background)  *)
(* and the animation loop of AppComponent that drives it.                  *)
(*                                                                         *)
(* Numbers.  The code computes in IEEE doubles; the model computes in      *)
(* fixed point on integers:                                                *)
(*   lengths, positions, velocities    1/100 pixel      (Scale)            *)
(*   angles                            1/1000 radian                       *)
(*   sines, opacities, factors, s, l   1/1000           (Unit)             *)
(*   hues of colours                   1/100 degree     (FullTurn = 360)   *)
(* NaN, which the code can produce (0/0), is the value NaN below and is    *)
(* propagated by every arithmetic operator that can meet it.               *)
(*                                                                         *)
(* Math.random() is a pseudo random generator: the variable rng is its     *)
(* state, each call advances it, and the first state is an input.          *)
(***************************************************************************)
EXTENDS Integers, Sequences, FiniteSets, TLC

\* ------------------------------------------------------------------ units

Scale == 100
Unit == 1000
FullTurn == 36000
TwoPi == 6283

\* An optional field that is absent (the ?: fields of Shape and of
\* KaleidoscopeConfig, an optional argument that is not passed).
Undefined == -1

\* The double NaN (a value no position, velocity or distance takes).
NaN == -999999

Min(a, b) == IF a < b THEN a ELSE b
Max(a, b) == IF a > b THEN a ELSE b
Abs(a) == IF a < 0 THEN -a ELSE a

\* a / b for b > 0, rounded towards zero.
TDiv(a, b) == IF a >= 0 THEN a \div b ELSE -((-a) \div b)

\* a / b for a >= 0, b > 0, rounded to the nearest integer (Math.round).
RDiv(a, b) == (2 * a + b) \div (2 * b)

\* JavaScript's a % b for b > 0: the sign of the result is that of a.
JsRem(a, b) == IF a >= 0 THEN a % b ELSE -((-a) % b)

\* Math.sqrt on integers: the largest r with r * r <= n.
RECURSIVE SqrtFrom(_, _, _)
SqrtFrom(n, lo, hi) ==
  IF lo >= hi THEN lo
  ELSE LET mid == (lo + hi + 1) \div 2
       IN  IF mid * mid <= n THEN SqrtFrom(n, mid, hi) ELSE SqrtFrom(n, lo, mid - 1)

Sqrt(n) == SqrtFrom(n, 0, 46340)

\* Math.sin of an angle in 1/1000 radian, in 1/1000 (Bhaskara's rational
\* approximation on each half period; the error is below 2/1000).
HalfSin(x) ==
  LET p == (x * (3142 - x)) \div Unit
  IN  (16000 * p) \div (49348 - 4 * p)

Sin(a) ==
  LET x == a % TwoPi
  IN  IF x <= 3141 THEN HalfSin(x) ELSE -HalfSin(x - 3142)

Cos(a) == Sin(a + 1571)

\* ----------------------------------------------------------- Math.random

RngModulus == 32768
RngMultiplier == 12345
RngIncrement == 6789

\* The generator's next state.
NextRng(r) == (RngMultiplier * r + RngIncrement) % RngModulus

\* Math.random() * n, rounded down, for the generator state r that the call
\* returns: Math.random() is r / RngModulus, in [0, 1).
Random(r, n) == (r * n) \div RngModulus

\* k calls of the generator as one affine map x |-> a * x + c (mod RngModulus).
RECURSIVE Calls(_)
Calls(k) ==
  IF k = 0 THEN [a |-> 1, c |-> 0]
  ELSE IF k % 2 = 1
  THEN LET t == Calls(k - 1)
       IN  [a |-> (RngMultiplier * t.a) % RngModulus,
            c |-> (RngMultiplier * t.c + RngIncrement) % RngModulus]
  ELSE LET t == Calls(k \div 2)
       IN  [a |-> (t.a * t.a) % RngModulus, c |-> (t.a * t.c + t.c) % RngModulus]

\* The generator state after k calls.
Skip(r, k) == LET t == Calls(k) IN (t.a * r + t.c) % RngModulus

\* -------------------------------------------------------------- palettes

Hex(r, g, b) == [kind |-> "hex", r |-> r, g |-> g, b |-> b]
Hsl(h) == [kind |-> "hsl", h |-> h]
UndefinedColor == [kind |-> "undefined"]

PaletteNames ==
  {"Cosmic Fusion", "Oceanic Dream", "Sunset Blaze", "Enchanted Forest", "Neon Noir",
   "Pastel Dreams", "Cyberpunk Sunset", "Mystic Forest", "Retro Arcade"}

palettes ==
  [name \in PaletteNames |->
    CASE name = "Cosmic Fusion" ->
           << Hex(61,44,141), Hex(145,107,191), Hex(201,167,235), Hex(241,232,255),
              Hex(255,171,225), Hex(255,84,214), Hex(162,57,234), Hex(106,13,173) >>
      [] name = "Oceanic Dream" ->
           << Hex(0,59,70), Hex(7,87,91), Hex(102,165,173), Hex(196,223,230),
              Hex(161,202,226), Hex(114,188,212), Hex(85,179,217), Hex(66,129,164) >>
      [] name = "Sunset Blaze" ->
           << Hex(255,72,0), Hex(255,107,53), Hex(255,135,94), Hex(255,181,154),
              Hex(249,199,132), Hex(232,93,4), Hex(220,47,2), Hex(106,4,15) >>
      [] name = "Enchanted Forest" ->
           << Hex(45,106,79), Hex(64,145,108), Hex(82,183,136), Hex(116,198,157),
              Hex(149,213,178), Hex(183,228,199), Hex(216,243,220), Hex(27,67,50) >>
      [] name = "Neon Noir" ->
           << Hex(255,0,255), Hex(0,255,255), Hex(0,255,0), Hex(255,255,0),
              Hex(255,0,85), Hex(127,0,255), Hex(0,127,255), Hex(255,94,0) >>
      [] name = "Pastel Dreams" ->
           << Hex(174,198,207), Hex(255,179,71), Hex(255,209,220), Hex(173,216,230),
              Hex(223,255,0), Hex(197,225,165) >>
      [] name = "Cyberpunk Sunset" ->
           << Hex(255,0,224), Hex(64,224,208), Hex(255,140,0), Hex(255,215,0),
              Hex(138,43,226) >>
      [] name = "Mystic Forest" ->
           << Hex(46,139,87), Hex(106,90,205), Hex(143,188,143), Hex(218,112,214),
              Hex(72,61,139) >>
      [] OTHER ->
           << Hex(255,99,71), Hex(255,215,0), Hex(0,255,255), Hex(186,85,211),
              Hex(255,69,0) >>]

\* A registry that holds the first five palettes only.
RegisteredFirstFive(name) ==
  name \in {"Cosmic Fusion", "Oceanic Dream", "Sunset Blaze", "Enchanted Forest", "Neon Noir"}

\* this.palettes[name] is defined.
Registered(name) == name \in DOMAIN palettes

\* palette[i] for a 0-based index i: undefined outside the array.
PaletteAt(palette, i) ==
  IF i >= 0 /\ i < Len(palette) THEN palette[i + 1] ELSE UndefinedColor

\* --------------------------------------------------------- colour utility

\* hexToRgb: null exactly when the argument is no 6-digit hex string.
HexToRgbIsNull(c) == c.kind # "hex"

\* hexToHsl of a hex colour: h in 1/100 degree, s and l in 1/1000.
HexToHsl(c) ==
  LET mx == Max(c.r, Max(c.g, c.b))
      mn == Min(c.r, Min(c.g, c.b))
      d == mx - mn
      l == RDiv((mx + mn) * Unit, 510)
      s == IF d = 0 THEN 0
           ELSE IF mx + mn > 255 THEN RDiv(d * Unit, 510 - mx - mn)
           ELSE RDiv(d * Unit, mx + mn)
      h == IF d = 0 THEN 0
           ELSE IF mx = c.r THEN ((c.g - c.b) * 6000) \div d + (IF c.g < c.b THEN FullTurn ELSE 0)
           ELSE IF mx = c.g THEN ((c.b - c.r) * 6000) \div d + 12000
           ELSE ((c.r - c.g) * 6000) \div d + 24000
  IN  [h |-> h, s |-> s, l |-> l]

\* hue2rgb, with t in 1/100 degree of the full turn.
Hue2Rgb(p, q, t0) ==
  LET t1 == IF t0 < 0 THEN t0 + FullTurn ELSE t0
      t == IF t1 > FullTurn THEN t1 - FullTurn ELSE t1
  IN  IF t < 6000 THEN p + TDiv((q - p) * t, 6000)
      ELSE IF t < 18000 THEN q
      ELSE IF t < 24000 THEN p + TDiv((q - p) * (24000 - t), 6000)
      ELSE p

\* toHex: Math.round(x * 255).
ToHex(x) == RDiv(x * 255, Unit)

HslToHex(h, s, l) ==
  IF s = 0 THEN Hex(ToHex(l), ToHex(l), ToHex(l))
  ELSE LET q == IF l < 500 THEN TDiv(l * (Unit + s), Unit) ELSE l + s - TDiv(l * s, Unit)
           p == 2 * l - q
       IN  Hex(ToHex(Hue2Rgb(p, q, h + 12000)), ToHex(Hue2Rgb(p, q, h)),
               ToHex(Hue2Rgb(p, q, h - 12000)))

\* interpolateColor's hue, were it the straight line from h1 to h2.
InterpolateHueDirect(h1, h2, factor) ==
  LET h == JsRem(h1 + TDiv(factor * (h2 - h1), Unit), FullTurn)
  IN  IF h < 0 THEN h + FullTurn ELSE h

\* The hue of interpolateColor, before the conversion back to hex.
InterpolateHue(h1, h2, factor) ==
  LET diff == h2 - h1
      a == IF Abs(diff) > 18000 /\ diff > 0 THEN h1 + FullTurn ELSE h1
      b == IF Abs(diff) > 18000 /\ ~(diff > 0) THEN h2 + FullTurn ELSE h2
      h == JsRem(a + TDiv(factor * (b - a), Unit), FullTurn)
  IN  IF h < 0 THEN h + FullTurn ELSE h

InterpolateColor(color1, color2, factor) ==
  IF HexToRgbIsNull(color1) \/ HexToRgbIsNull(color2) THEN color1
  ELSE LET hsl1 == HexToHsl(color1)
           hsl2 == HexToHsl(color2)
       IN  HslToHex(InterpolateHue(hsl1.h, hsl2.h, factor),
                    hsl1.s + TDiv(factor * (hsl2.s - hsl1.s), Unit),
                    hsl1.l + TDiv(factor * (hsl2.l - hsl1.l), Unit))

\* ------------------------------------------------------------------ state

VARIABLES
  numSlices,            \* KaleidoscopeService's configuration fields
  maxShapes,
  shapeSize,
  shapeSpeed,
  rotationSpeed,
  currentColorPalette,
  shapes,               \* Shape[]: a sequence of shape records
  particles,            \* Particle[]: a sequence of particle records
  lastWidth,
  lastHeight,
  rng,                  \* the state of Math.random's generator
  nextId,               \* the identity the next created object gets
  pc,                   \* where the animation loop is: "idle" between frames,
                        \* "background", "shapes", "slices" inside draw,
                        \* "thrown" once draw has thrown
  call,                 \* the arguments of the draw call in progress (or the last)
  ctxDepth,             \* the canvas context's stack of saved states: its depth
  frames,               \* draw calls made so far
  updates,              \* updateConfig calls made so far
  log,                  \* what the draw call in progress (or the last) has done
                        \* so far: its updateShapes and drawShapes calls, in order
  mixed                 \* the last interpolateColor call: arguments and result

vars ==
  << numSlices, maxShapes, shapeSize, shapeSpeed, rotationSpeed, currentColorPalette,
     shapes, particles, lastWidth, lastHeight, rng, nextId, pc, call, ctxDepth,
     frames, updates, log, mixed >>

config == << numSlices, maxShapes, shapeSize, shapeSpeed, rotationSpeed, currentColorPalette >>

\* ---------------------------------------------------------- shape factory

ShapeTypes ==
  << "circle", "triangle", "square", "line", "pentagon", "hexagon", "star", "cross" >>

\* The colour state createRandomShape gives a new shape, the last call of
\* Math.random before it having returned state r8: the fields and the
\* generator's state after the calls made.
InitialColorState(r8, name) ==
  LET r9 == NextRng(r8)
      r10 == NextRng(r9)
      r11 == NextRng(r10)
  IN  IF Registered(name)
      THEN LET palette == palettes[name]
               paletteIndex == Random(r9, Len(palette))
               nextIndex == (paletteIndex + 1) % Len(palette)
               transitionProgress == Random(r10, Unit)
           IN  [ fields |->
                   [ hue |-> Undefined,
                     paletteIndex |-> paletteIndex,
                     transitionProgress |-> transitionProgress,
                     transitionSpeed |-> Random(r11, 5) + 2,
                     color |-> InterpolateColor(PaletteAt(palette, paletteIndex),
                                                PaletteAt(palette, nextIndex),
                                                transitionProgress) ],
                 rng |-> r11 ]
      ELSE LET hue == Random(r9, FullTurn)
           IN  [ fields |->
                   [ hue |-> hue,
                     paletteIndex |-> Undefined,
                     transitionProgress |-> Undefined,
                     transitionSpeed |-> Undefined,
                     color |-> Hsl(hue) ],
                 rng |-> r9 ]

\* createRandomShape, called with the generator in state r0 while the service
\* holds palette name, shapeSize size and shapeSpeed speed. The result is the
\* new shape and the generator's state after the calls made. The fields id
\* (the object's identity) and born (the parameters it was generated under)
\* are the model's, the others the code's.
CreateRandomShape(r0, id, name, size, speed) ==
  LET r1 == NextRng(r0)
      r2 == NextRng(r1)
      r3 == NextRng(r2)
      r4 == NextRng(r3)
      r5 == NextRng(r4)
      r6 == NextRng(r5)
      r7 == NextRng(r6)
      r8 == NextRng(r7)
      colorState == InitialColorState(r8, name)
  IN  [ shape |->
          [ id |-> id,
            born |-> [colorPalette |-> name, shapeSize |-> size, shapeSpeed |-> speed],
            type |-> ShapeTypes[Random(r1, Len(ShapeTypes)) + 1],
            x |-> Random(r2, 400 * Scale) - 200 * Scale,
            y |-> Random(r3, 400 * Scale) - 200 * Scale,
            radius |-> Random(r4, (size - 5) * Scale) + 5 * Scale,
            speedX |-> (Random(r5, 2 * Scale) - Scale) * speed,
            speedY |-> (Random(r6, 2 * Scale) - Scale) * speed,
            opacity |-> Unit,
            angle |-> Random(r7, TwoPi),
            rotationSpeed |-> Random(r8, 50) - 25 ] @@ colorState.fields,
        rng |-> colorState.rng ]

\* The loop of adjustShapesArray: n more shapes pushed onto st.shapes.
RECURSIVE PushShapes(_, _, _, _, _)
PushShapes(st, n, name, size, speed) ==
  IF n <= 0 THEN st
  ELSE LET made == CreateRandomShape(st.rng, st.nextId, name, size, speed)
       IN  PushShapes([ shapes |-> Append(st.shapes, made.shape),
                        rng |-> made.rng,
                        nextId |-> st.nextId + 1 ],
                      n - 1, name, size, speed)

\* adjustShapesArray, were it to drop the excess shapes from the front.
AdjustShapesArrayDropsFirst(st, max, name, size, speed) ==
  LET diff == max - Len(st.shapes)
  IN  IF diff > 0 THEN PushShapes(st, diff, name, size, speed)
      ELSE [st EXCEPT !.shapes = SubSeq(st.shapes, 1 - diff, Len(st.shapes))]

\* adjustShapesArray on the collection st.shapes with this.maxShapes = max.
AdjustShapesArray(st, max, name, size, speed) ==
  LET diff == max - Len(st.shapes)
  IN  IF diff > 0 THEN PushShapes(st, diff, name, size, speed)
      ELSE [st EXCEPT !.shapes = SubSeq(st.shapes, 1, max)]

\* ----------------------------------------------------------- updateConfig

Has(cfg, f) == f \in DOMAIN cfg

\* The value of a field of the service after the assignment
\* "if (config.f !== undefined) this.f = config.f".
Assigned(cfg, f, old) == IF Has(cfg, f) THEN cfg[f] ELSE old

\* needsShapeReset, were it set by every field that is passed, changed or not.
NeedsShapeResetWhenPassed(cfg) ==
  Has(cfg, "colorPalette") \/ Has(cfg, "shapeSize") \/ Has(cfg, "shapeSpeed")

\* needsShapeReset at the end of updateConfig's tests.
NeedsShapeReset(cfg) ==
  \/ Has(cfg, "colorPalette") /\ cfg.colorPalette # currentColorPalette
  \/ Has(cfg, "shapeSize") /\ cfg.shapeSize # shapeSize
  \/ Has(cfg, "shapeSpeed") /\ cfg.shapeSpeed # shapeSpeed

\* updateConfig's maxShapes test, were it to look for a shortfall only.
MaxShapesChangedWhenShort(cfg) == Has(cfg, "maxShapes") /\ Len(shapes) < cfg.maxShapes

\* "config.maxShapes !== undefined && this.shapes.length !== this.maxShapes",
\* evaluated after the assignment of this.maxShapes.
MaxShapesChanged(cfg) == Has(cfg, "maxShapes") /\ Len(shapes) # cfg.maxShapes

\* updateConfig, were it never to empty the collection.
ShapesToAdjustKept(cfg) == shapes

\* The collection the last statement of updateConfig starts from: emptied
\* only on the "else if (needsShapeReset)" branch.
ShapesToAdjust(cfg) ==
  IF ~MaxShapesChanged(cfg) /\ NeedsShapeReset(cfg) THEN << >> ELSE shapes

MaxUpdates == 2

UpdateConfig(cfg) ==
  /\ pc \in {"idle", "thrown"}
  /\ updates < MaxUpdates
  /\ updates' = updates + 1
  /\ numSlices' = Assigned(cfg, "numSlices", numSlices)
  /\ currentColorPalette' = Assigned(cfg, "colorPalette", currentColorPalette)
  /\ shapeSize' = Assigned(cfg, "shapeSize", shapeSize)
  /\ shapeSpeed' = Assigned(cfg, "shapeSpeed", shapeSpeed)
  /\ rotationSpeed' = Assigned(cfg, "rotationSpeed", rotationSpeed)
  /\ maxShapes' = Assigned(cfg, "maxShapes", maxShapes)
  /\ IF MaxShapesChanged(cfg) \/ NeedsShapeReset(cfg)
     THEN LET st == AdjustShapesArray(
                      [shapes |-> ShapesToAdjust(cfg), rng |-> rng, nextId |-> nextId],
                      maxShapes', currentColorPalette', shapeSize', shapeSpeed')
          IN  /\ shapes' = st.shapes
              /\ rng' = st.rng
              /\ nextId' = st.nextId
     ELSE UNCHANGED << shapes, rng, nextId >>
  /\ UNCHANGED << particles, lastWidth, lastHeight, pc, call, ctxDepth, frames, log, mixed >>

\* -------------------------------------------------------------- particles

numParticles == 100
maxTrailLength == 30
interactionRadius == 150

\* Arithmetic on doubles that may be NaN.
Add(a, b) == IF a = NaN \/ b = NaN THEN NaN ELSE a + b
Sub(a, b) == IF a = NaN \/ b = NaN THEN NaN ELSE a - b
Less(a, b) == a # NaN /\ b # NaN /\ a < b

\* One particle of initParticles, made with the generator in state r0. The
\* field id (the object's identity) is the model's, the others the code's.
CreateParticle(r0, id, width, height) ==
  LET r1 == NextRng(r0)
      r2 == NextRng(r1)
      r3 == NextRng(r2)
      r4 == NextRng(r3)
      r5 == NextRng(r4)
      r6 == NextRng(r5)
      speedX == Random(r1, 60) - 30
      speedY == Random(r2, 60) - 30
  IN  [ particle |->
          [ id |-> id,
            x |-> Random(r3, width),
            y |-> Random(r4, height),
            radius |-> Random(r5, 150) + 50,
            speedX |-> speedX,
            speedY |-> speedY,
            baseSpeedX |-> speedX,
            baseSpeedY |-> speedY,
            opacity |-> Random(r6, 500) + 200,
            trail |-> << >> ],
        rng |-> r6 ]

\* The number of Math.random calls CreateParticle makes.
CallsPerParticle == 6

\* initParticles: the new collection, the generator's state and the next
\* identity after it. The i-th particle is made after the calls of the i - 1
\* before it.
InitParticles(r0, id0, width, height) ==
  [ particles |->
      [i \in 1..numParticles |->
         CreateParticle(Skip(r0, CallsPerParticle * (i - 1)), id0 + i - 1,
                        width, height).particle],
    rng |-> Skip(r0, CallsPerParticle * numParticles),
    nextId |-> id0 + numParticles ]

\* The change of a particle's velocity by the pointer at mouse (<< >> when
\* draw got no pointer): << speedX, speedY >> after "if (mousePos) {...}".
\* A pointer further than interactionRadius along one axis is further than
\* that in distance; the test spares squaring such coordinates.
Repelled(p, mouse) ==
  IF mouse = << >> THEN << p.speedX, p.speedY >>
  ELSE LET dx == Sub(p.x, mouse[1])
           dy == Sub(p.y, mouse[2])
           reach == interactionRadius * Scale
           close == /\ dx # NaN /\ dy # NaN
                    /\ Abs(dx) < reach /\ Abs(dy) < reach
           distance == IF close THEN Sqrt(dx * dx + dy * dy) ELSE reach
       IN  IF ~close \/ ~(distance < reach) THEN << p.speedX, p.speedY >>
           ELSE IF distance = 0 THEN << NaN, NaN >>       \* 0 / 0
           ELSE LET force == ((reach - distance) * Unit) \div reach
                    pushX == TDiv(TDiv(dx * Unit, distance) * force, 20 * Unit)
                    pushY == TDiv(TDiv(dy * Unit, distance) * force, 20 * Unit)
                IN  << Add(p.speedX, pushX), Add(p.speedY, pushY) >>

\* "speed += (base - speed) * 0.05".
Eased(speed, base) == IF speed = NaN THEN NaN ELSE speed + TDiv(base - speed, 20)

\* The trail, were the newest position dropped from a full one (pop for shift).
TrailedDropsNewest(trail, x, y) ==
  LET pushed == Append(trail, << x, y >>)
  IN  IF Len(pushed) > maxTrailLength THEN SubSeq(pushed, 1, maxTrailLength) ELSE pushed

\* "trail.push({x, y}); if (trail.length > maxTrailLength) trail.shift()".
Trailed(trail, x, y) ==
  LET pushed == Append(trail, << x, y >>)
  IN  IF Len(pushed) > maxTrailLength THEN Tail(pushed) ELSE pushed

\* The two wrap tests of one axis, in the code's order.
Wrapped(v, limit) ==
  LET v1 == IF Less(v, 0) THEN limit ELSE v
  IN  IF Less(limit, v1) THEN 0 ELSE v1

\* One iteration of drawBackground's forEach: the particle after its update.
UpdateParticle(p, width, height, mouse) ==
  LET pushed == Repelled(p, mouse)
      speedX == Eased(pushed[1], p.baseSpeedX)
      speedY == Eased(pushed[2], p.baseSpeedY)
      movedX == Add(p.x, speedX)
      movedY == Add(p.y, speedY)
      x == Wrapped(movedX, width)
      y == Wrapped(movedY, height)
      wrapped == x # movedX \/ y # movedY
  IN  [p EXCEPT !.speedX = speedX, !.speedY = speedY, !.x = x, !.y = y,
                !.trail = IF wrapped THEN << >> ELSE Trailed(p.trail, p.x, p.y)]

\* ------------------------------------------------------------------- draw

\* The timestamp requestAnimationFrame passes to frame number n.
FrameMs == 16

\* draw's test, were it to look at the width only.
SurfaceChangedWidthOnly(width, height) == lastWidth # width

\* draw's test "this.lastWidth !== width || this.lastHeight !== height".
SurfaceChanged(width, height) == lastWidth # width \/ lastHeight # height

\* draw, first part: the test of the surface's size and initParticles.
\* limit bounds the number of frames; from frame number window on the
\* surface and the pointer stay as they were in the frame before.
DrawBegin(limit, window, width, height, mouse) ==
  /\ pc = "idle"
  /\ frames < limit
  /\ frames >= window =>
       /\ width = call.width /\ height = call.height /\ mouse = call.mousePos
  /\ frames' = frames + 1
  /\ call' = [width |-> width, height |-> height, time |-> frames * FrameMs,
              mousePos |-> mouse]
  /\ IF SurfaceChanged(width, height)
     THEN LET st == InitParticles(rng, nextId, width, height)
          IN  /\ particles' = st.particles
              /\ rng' = st.rng
              /\ nextId' = st.nextId
              /\ lastWidth' = width
              /\ lastHeight' = height
     ELSE UNCHANGED << particles, rng, nextId, lastWidth, lastHeight >>
  /\ pc' = "background"
  /\ log' = << >>
  /\ UNCHANGED << config, shapes, ctxDepth, updates, mixed >>

\* draw, second part: drawBackground (its save and restore are balanced).
DrawBackground ==
  /\ pc = "background"
  /\ particles' = [i \in 1..Len(particles) |->
                     UpdateParticle(particles[i], call.width, call.height, call.mousePos)]
  /\ pc' = "shapes"
  /\ UNCHANGED << config, shapes, lastWidth, lastHeight, rng, nextId, call, ctxDepth,
                  frames, updates, log, mixed >>

\* The colour part of updateShapes for one shape.
UpdateColor(shape, name) ==
  IF /\ Registered(name)
     /\ shape.paletteIndex # Undefined
     /\ shape.transitionProgress # Undefined
     /\ shape.transitionSpeed # Undefined
  THEN LET palette == palettes[name]
           progress == shape.transitionProgress + shape.transitionSpeed
           done == progress >= Unit
           paletteIndex == IF done THEN (shape.paletteIndex + 1) % Len(palette)
                           ELSE shape.paletteIndex
           transitionProgress == IF done THEN 0 ELSE progress
           nextIndex == (paletteIndex + 1) % Len(palette)
       IN  [shape EXCEPT !.transitionProgress = transitionProgress,
                         !.paletteIndex = paletteIndex,
                         !.color = InterpolateColor(PaletteAt(palette, paletteIndex),
                                                    PaletteAt(palette, nextIndex),
                                                    transitionProgress)]
  ELSE IF shape.hue # Undefined
  THEN LET hue == (shape.hue + 20) % FullTurn
       IN  [shape EXCEPT !.hue = hue, !.color = Hsl(hue)]
  ELSE shape

\* One iteration of updateShapes' forEach, for the shape at 0-based index.
UpdateShape(shape, index, time, width, height, rotation, name) ==
  LET timeFactor == time \div 2
      x == shape.x + TDiv(shape.speedX * Cos(timeFactor + shape.radius * 10), Unit)
      y == shape.y + TDiv(shape.speedY * Sin(timeFactor + shape.radius * 10), Unit)
      bounds == (Min(width, height) * 3) \div 10
      moved == [shape EXCEPT
                  !.x = x,
                  !.y = y,
                  !.speedX = IF Abs(x) > bounds THEN -shape.speedX ELSE shape.speedX,
                  !.speedY = IF Abs(y) > bounds THEN -shape.speedY ELSE shape.speedY,
                  !.angle = shape.angle + shape.rotationSpeed * rotation,
                  !.opacity = 700 + TDiv(300 * Sin(2 * time + index * Unit), Unit)]
  IN  UpdateColor(moved, name)

\* The shapes a call of updateShapes' or drawShapes' forEach visits.
ShapeIds == { shapes[i].id : i \in 1..Len(shapes) }

\* draw, third part: the save and translate, then updateShapes.
UpdateShapes ==
  /\ pc = "shapes"
  /\ ctxDepth' = ctxDepth + 1
  /\ shapes' = [i \in 1..Len(shapes) |->
                  UpdateShape(shapes[i], i - 1, call.time, call.width, call.height,
                              rotationSpeed, currentColorPalette)]
  /\ pc' = "slices"
  /\ log' = Append(log, [op |-> "updateShapes", updated |-> ShapeIds])
  /\ UNCHANGED << config, particles, lastWidth, lastHeight, rng, nextId, call,
                  frames, updates, mixed >>

\* applyOpacityToColor throws on a colour that is undefined ("color.startsWith"),
\* so drawShapes throws when some shape has one.
DrawShapesThrows == \E i \in 1..Len(shapes) : shapes[i].color.kind = "undefined"

\* "(Math.PI * 2) / this.numSlices", in 1/1000 radian.
AngleIncrement == TDiv(TwoPi, numSlices)

\* One iteration of draw's loop, were it to leave out the mirrored pass.
SliceCommandsUnflipped(i) ==
  << [op |-> "drawShapes", slice |-> i, rotate |-> i * AngleIncrement,
      flipped |-> FALSE, drawn |-> ShapeIds] >>

\* One iteration of draw's loop, between its save and its restore: rotate,
\* drawShapes, scale(1, -1), drawShapes.
SliceCommands(i) ==
  << [op |-> "drawShapes", slice |-> i, rotate |-> i * AngleIncrement,
      flipped |-> FALSE, drawn |-> ShapeIds],
     [op |-> "drawShapes", slice |-> i, rotate |-> i * AngleIncrement,
      flipped |-> TRUE, drawn |-> ShapeIds] >>

\* The iterations i, i + 1, ... of "for (let i = 0; i < this.numSlices; i++)".
RECURSIVE SlicesFrom(_)
SlicesFrom(i) == IF i < numSlices THEN SliceCommands(i) \o SlicesFrom(i + 1) ELSE << >>

\* draw, last part: the loop over the slices and the final restore. When
\* drawShapes throws, it throws in the first slice, under draw's save and the
\* slice's; the exception leaves animate before it requests the next frame.
DrawSlices ==
  /\ pc = "slices"
  /\ IF numSlices > 0 /\ DrawShapesThrows
     THEN /\ pc' = "thrown"
          /\ ctxDepth' = ctxDepth + 1
          /\ log' = Append(log, [op |-> "drawShapes throws", slice |-> 0])
     ELSE /\ pc' = "idle"
          /\ ctxDepth' = ctxDepth - 1
          /\ log' = log \o SlicesFrom(0)
  /\ UNCHANGED << config, shapes, particles, lastWidth, lastHeight, rng, nextId, call,
                  frames, updates, mixed >>

\* ------------------------------------------------------- the specifications

\* The states of Math.random's generator the program may start in.
Seeds == {1, 112}

\* No interpolateColor call observed yet.
NoMix == [color1 |-> UndefinedColor, color2 |-> UndefinedColor, factor |-> 0,
          hue |-> Undefined, color |-> UndefinedColor]

\* The service after its constructor, the loop not yet started.
Init ==
  /\ numSlices = 12
  /\ maxShapes = 20
  /\ shapeSize = 25
  /\ shapeSpeed = 1
  /\ rotationSpeed = 1
  /\ currentColorPalette = "Random"
  /\ \E seed \in Seeds :
       LET st == AdjustShapesArray([shapes |-> << >>, rng |-> seed, nextId |-> 1],
                                   20, "Random", 25, 1)
       IN  /\ shapes = st.shapes
           /\ rng = st.rng
           /\ nextId = st.nextId
  /\ particles = << >>
  /\ lastWidth = 0
  /\ lastHeight = 0
  /\ pc = "idle"
  /\ call = [width |-> 0, height |-> 0, time |-> 0, mousePos |-> << >>]
  /\ ctxDepth = 0
  /\ frames = 0
  /\ updates = 0
  /\ log = << >>
  /\ mixed = NoMix

\* What the host sends when the slice count is set to n and the other
\* controls are as they start: the effect passes every field.
HostConfig(n) ==
  [numSlices |-> n, maxShapes |-> 20, shapeSize |-> 25, shapeSpeed |-> 1,
   rotationSpeed |-> 1, colorPalette |-> "Random"]

\* The configurations updateConfig is called with.
ConfigInputs ==
  { [numSlices |-> 6, rotationSpeed |-> 2],
    HostConfig(8),
    [colorPalette |-> "Neon Noir"],
    [colorPalette |-> "Aurora"],
    [shapeSize |-> 10, shapeSpeed |-> 2],
    [maxShapes |-> 0],
    [maxShapes |-> 3],
    [maxShapes |-> 21, colorPalette |-> "Retro Arcade"],
    [maxShapes |-> 22, colorPalette |-> "Random"] }

\* The surface (width, height) and the pointer draw is called with: a small
\* canvas, and the pointer where AppComponent's mousePosition starts.
Surfaces == { << 40 * Scale, 30 * Scale >> }
Pointers == { << -1000 * Scale, -1000 * Scale >> }

MaxFrames == 1

Next ==
  \/ \E cfg \in ConfigInputs : UpdateConfig(cfg)
  \/ \E s \in Surfaces, m \in Pointers : DrawBegin(MaxFrames, MaxFrames, s[1], s[2], m)
  \/ DrawBackground
  \/ UpdateShapes
  \/ DrawSlices

Spec == Init /\ [][Next]_vars


\* The animation loop alone, over many frames: no updateConfig call. The
\* surface and the pointer may change in the first InputWindow frames.
LoopSurfaces == { << 8 * Scale, 6 * Scale >>, << 8 * Scale, 4 * Scale >> }
LoopPointers == { << >>, << 0, 0 >> }

LoopFrames == 33
InputWindow == 2

NextLoop ==
  \/ \E s \in LoopSurfaces, m \in LoopPointers :
       DrawBegin(LoopFrames, InputWindow, s[1], s[2], m)
  \/ DrawBackground
  \/ UpdateShapes
  \/ DrawSlices

SpecLoop == Init /\ [][NextLoop]_vars


\* interpolateColor alone, on the colours and factors it may be called with.
\* The colours: a palette of the registry (hues near 9, 51, 180, 288 and 16
\* degrees), colours of hue 350, 10 and 0 degrees, and an HSL string, which
\* hexToRgb does not parse.
ColorInputs ==
  { palettes["Retro Arcade"][i] : i \in 1..Len(palettes["Retro Arcade"]) }
    \cup { Hex(240, 0, 40), Hex(240, 40, 0), Hex(255, 0, 0), Hsl(0) }

\* The factors, in 1/1000: updateShapes passes a transitionProgress.
Factors == {0, 250, 500, 750, 1000}

\* A call interpolateColor(color1, color2, factor): what it returns, and the
\* hue it reached before the conversion back to hex.
InterpolateColorCall(color1, color2, factor) ==
  /\ mixed' = [color1 |-> color1, color2 |-> color2, factor |-> factor,
               hue |-> IF HexToRgbIsNull(color1) \/ HexToRgbIsNull(color2)
                       THEN Undefined
                       ELSE InterpolateHue(HexToHsl(color1).h, HexToHsl(color2).h,
                                           factor),
               color |-> InterpolateColor(color1, color2, factor)]
  /\ UNCHANGED << config, shapes, particles, lastWidth, lastHeight, rng, nextId, pc,
                  call, ctxDepth, frames, updates, log >>

NextColor ==
  \E color1 \in ColorInputs, color2 \in ColorInputs, factor \in Factors :
    InterpolateColorCall(color1, color2, factor)

SpecColor == Init /\ [][NextColor]_vars

\* ------------------------------------------------------------- the claims

\* The identities of the objects of a collection.
Ids(seq) == { seq[i].id : i \in 1..Len(seq) }

\* A step that is an updateConfig call, and what the call changed.
IsUpdateConfig == updates' = updates + 1
ResetFieldChanged ==
  \/ currentColorPalette' # currentColorPalette
  \/ shapeSize' # shapeSize
  \/ shapeSpeed' # shapeSpeed
MaxShapesFieldChanged == maxShapes' # maxShapes

\* Every shape of the collection after the step is a new object, generated
\* under the parameters the service holds after the step.
AllShapesFresh ==
  /\ Ids(shapes') \cap Ids(shapes) = {}
  /\ \A i \in 1..Len(shapes') :
       shapes'[i].born = [colorPalette |-> currentColorPalette', shapeSize |-> shapeSize',
                          shapeSpeed |-> shapeSpeed']

\* C1: an updateConfig call that changes colorPalette, shapeSize or shapeSpeed
\* and leaves maxShapes as it is ends with maxShapes shapes, every one of
\* them freshly generated: no shape of the collection before the call is in it.
C1_ResetRebuildsAllShapes ==
  [][ (IsUpdateConfig /\ ResetFieldChanged /\ ~MaxShapesFieldChanged)
        => (Len(shapes') = maxShapes' /\ AllShapesFresh) ]_vars

\* C1's case: the first call chose the palette Neon Noir, and the 20 shapes
\* are the 20 objects made after the constructor's.
C1_Witness ==
  /\ updates = 1 /\ currentColorPalette = "Neon Noir" /\ maxShapes = 20
  /\ Ids(shapes) = 21..40

\* C2: an updateConfig call that changes maxShapes and also colorPalette,
\* shapeSize or shapeSpeed ends with a collection that was cleared and fully
\* regenerated: maxShapes shapes, none of them a shape from before the call,
\* every one generated under the new palette, size and speed.
C2_ResetAlsoWhenMaxShapesChanges ==
  [][ (IsUpdateConfig /\ ResetFieldChanged /\ MaxShapesFieldChanged)
        => (Len(shapes') = maxShapes' /\ AllShapesFresh) ]_vars

\* C3: an updateConfig call that changes maxShapes only, from a collection of
\* length L to N, ends with N shapes of which the first min(L, N) are the
\* shapes from before, in their order and with their state; what is added is
\* new and at the end.
C3_MaxShapesKeepsThePrefix ==
  [][ (IsUpdateConfig /\ MaxShapesFieldChanged /\ ~ResetFieldChanged)
        => /\ Len(shapes') = maxShapes'
           /\ \A i \in 1..Min(Len(shapes), maxShapes') : shapes'[i] = shapes[i]
           /\ \A i \in (Len(shapes) + 1)..Len(shapes') : shapes'[i].id \notin Ids(shapes) ]_vars

\* C3's case: after a frame has moved the constructor's 20 shapes, maxShapes
\* went to 22: the 20 are in place and two new ones follow them.
C3_Witness ==
  /\ frames = 1 /\ pc = "idle" /\ updates = 1 /\ maxShapes = 22 /\ Len(shapes) = 22
  /\ \A i \in 1..20 : shapes[i].id = i
  /\ shapes[21].id > 20 /\ shapes[22].id > 20

\* The field of the service a field of the configuration is assigned to.
Current(f) ==
  CASE f = "colorPalette" -> currentColorPalette
    [] f = "shapeSize" -> shapeSize
    [] f = "shapeSpeed" -> shapeSpeed
    [] OTHER -> maxShapes

\* A call whose colorPalette, shapeSize, shapeSpeed and maxShapes are absent
\* or equal to the current values.
Quiet(cfg) ==
  \A f \in {"colorPalette", "shapeSize", "shapeSpeed", "maxShapes"} :
    ~Has(cfg, f) \/ cfg[f] = Current(f)

\* C4: an updateConfig call whose colorPalette, shapeSize, shapeSpeed and
\* maxShapes are absent or equal to the current values leaves the collection
\* of shapes and these four values as they are, whatever numSlices and
\* rotationSpeed it carries.
C4_QuietCallKeepsShapes ==
  [][ \A cfg \in ConfigInputs :
        (UpdateConfig(cfg) /\ Quiet(cfg))
          => /\ shapes' = shapes
             /\ << currentColorPalette', shapeSize', shapeSpeed', maxShapes' >>
                  = << currentColorPalette, shapeSize, shapeSpeed, maxShapes >> ]_vars

\* C4's case: the host sent its whole configuration with a new slice count,
\* and the shapes are the constructor's, moved by one frame since.
C4_Witness ==
  /\ updates = 1 /\ numSlices = 8 /\ frames = 1 /\ pc = "idle"
  /\ \A i \in 1..Len(shapes) : shapes[i].id = i
  /\ Len(shapes) = 20

\* The two variants of a shape's colour state.
HueState(shape) ==
  /\ shape.hue # Undefined
  /\ shape.paletteIndex = Undefined
  /\ shape.transitionProgress = Undefined
  /\ shape.transitionSpeed = Undefined
PaletteState(shape) ==
  /\ shape.hue = Undefined
  /\ shape.paletteIndex # Undefined
  /\ shape.transitionProgress # Undefined
  /\ shape.transitionSpeed # Undefined

\* C5: every shape has exactly one colour state, and it is the palette state
\* when the shape was generated under a name of the registry, the hue state
\* otherwise.
C5_OneColorState ==
  \A i \in 1..Len(shapes) :
    IF shapes[i].born.colorPalette \in PaletteNames
    THEN PaletteState(shapes[i]) /\ ~HueState(shapes[i])
    ELSE HueState(shapes[i]) /\ ~PaletteState(shapes[i])

\* C5's case: after a frame the collection holds shapes generated under
\* "Random", under the unregistered "Aurora" or both, and shapes generated
\* under a registered palette.
C5_Witness ==
  /\ frames = 1 /\ pc \in {"idle", "thrown"}
  /\ \E i \in 1..Len(shapes) : shapes[i].born.colorPalette = "Aurora"
  /\ \E i \in 1..Len(shapes) : shapes[i].born.colorPalette = "Retro Arcade"

\* A coordinate that is a number within [0, limit].
Within(v, limit) == v # NaN /\ 0 <= v /\ v <= limit

\* The step of a frame that updates the particles, and the position a
\* particle has in it after advancing by its velocity, before the wrap.
IsDrawBackground == pc = "background" /\ pc' = "shapes"
AdvancedX(i) == Add(particles[i].x, particles'[i].speedX)
AdvancedY(i) == Add(particles[i].y, particles'[i].speedY)
LeftSurface(i) ==
  \/ Less(AdvancedX(i), 0) \/ Less(call.width, AdvancedX(i))
  \/ Less(AdvancedY(i), 0) \/ Less(call.height, AdvancedY(i))

\* C6, the step: a particle that advances to a position outside the surface
\* is moved to the opposite edge on that axis within the step, and its trail
\* is empty at the end of the step.
C6_WrapsWithinTheStep ==
  [][ IsDrawBackground =>
        \A i \in 1..Len(particles) :
          LeftSurface(i) =>
            /\ particles'[i].trail = << >>
            /\ Less(AdvancedX(i), 0) => particles'[i].x = call.width
            /\ Less(call.width, AdvancedX(i)) => particles'[i].x = 0
            /\ Less(AdvancedY(i), 0) => particles'[i].y = call.height
            /\ Less(call.height, AdvancedY(i)) => particles'[i].y = 0 ]_vars

\* C6, the consequence: after every frame every particle's position satisfies
\* 0 <= x <= width and 0 <= y <= height.
C6_ParticlesStayOnSurface ==
  pc = "idle" =>
    \A i \in 1..Len(particles) :
      Within(particles[i].x, lastWidth) /\ Within(particles[i].y, lastHeight)

\* The step of a frame that tests the surface's size; call holds the
\* arguments of the draw call before it.
IsDrawBegin == pc = "idle" /\ pc' = "background"
Resized == call'.width # call.width \/ call'.height # call.height

\* C7: a draw call whose width or height differs from those of the draw call
\* before it replaces the particles, before it updates any, by 100 new ones
\* with velocity equal to base velocity (and no trail yet); a draw call with
\* the same width and height keeps the particles, and only advances them.
C7_ResizeReplacesParticles ==
  [][ /\ (IsDrawBegin /\ frames >= 1) =>
           IF Resized
           THEN /\ Len(particles') = 100
                /\ Ids(particles') \cap Ids(particles) = {}
                /\ \A i \in 1..Len(particles') :
                     /\ particles'[i].speedX = particles'[i].baseSpeedX
                     /\ particles'[i].speedY = particles'[i].baseSpeedY
                     /\ particles'[i].trail = << >>
           ELSE particles' = particles
      /\ IsDrawBackground =>
           /\ Len(particles') = Len(particles)
           /\ \A i \in 1..Len(particles) : particles'[i].id = particles[i].id ]_vars

\* C7's case: the second draw call came with another height than the first
\* (and the same width), and the particles are those made in it: the first
\* call made the objects 21 to 120.
C7_Witness ==
  /\ frames = 2 /\ pc = "background"
  /\ lastWidth = 8 * Scale /\ lastHeight = 4 * Scale
  /\ Ids(particles) = 121..220

\* C8: a trail never holds more than 30 positions; a frame adds the
\* particle's position before the move at the end and, when that makes 31,
\* removes the first, so that the trail is the last (at most 30) positions
\* before a move since the last wrap or initialisation.
C8_TrailKeepsTheLastThirty ==
  /\ [](\A i \in 1..Len(particles) : Len(particles[i].trail) <= 30)
  /\ [][ IsDrawBackground =>
           \A i \in 1..Len(particles) :
             LET old == particles[i].trail
                 here == << particles[i].x, particles[i].y >>
             IN  particles'[i].trail =
                   IF LeftSurface(i) THEN << >>
                   ELSE IF Len(old) < 30 THEN old \o << here >>
                   ELSE SubSeq(old, 2, 30) \o << here >> ]_vars

\* C8's case: frame 33 has added a position to a trail, no surface change
\* since frame 2 at the latest; a trail of 30 whose first position is not on
\* an edge (where a wrap puts a particle) has lost older positions.
C8_Witness ==
  /\ frames = 33 /\ pc = "shapes"
  /\ \E i \in 1..Len(particles) :
       LET first == particles[i].trail[1]
       IN  /\ Len(particles[i].trail) = 30
           /\ first[1] \notin {0, call.width}
           /\ first[2] \notin {0, call.height}

\* The step of a frame that is updateShapes.
IsUpdateShapes == pc = "shapes" /\ pc' = "slices"

\* C9: in a frame, every shape in palette state adds its transition speed to
\* its progress; at 1.0 or more the progress becomes 0 and the palette index
\* the next index of the selected palette, cyclically, otherwise the index
\* stays; then the progress is in [0, 1) and the colour is the interpolation
\* between the palette's entries at the index and at its successor.
C9_PaletteShapesAdvance ==
  [][ IsUpdateShapes =>
        \A i \in 1..Len(shapes) :
          shapes[i].paletteIndex # Undefined =>
            /\ currentColorPalette \in PaletteNames
            /\ LET palette == palettes[currentColorPalette]
                   sum == shapes[i].transitionProgress + shapes[i].transitionSpeed
                   after == shapes'[i]
               IN  /\ after.transitionProgress = IF sum >= Unit THEN 0 ELSE sum
                   /\ after.paletteIndex =
                        IF sum >= Unit THEN (shapes[i].paletteIndex + 1) % Len(palette)
                        ELSE shapes[i].paletteIndex
                   /\ after.transitionProgress >= 0 /\ after.transitionProgress < Unit
                   /\ after.paletteIndex \in 0..(Len(palette) - 1)
                   /\ after.color =
                        InterpolateColor(PaletteAt(palette, after.paletteIndex),
                                         PaletteAt(palette, (after.paletteIndex + 1) % Len(palette)),
                                         after.transitionProgress) ]_vars

\* C10: while the selected palette name is not in the registry, a frame
\* advances the hue of every shape of the collection by the fixed step modulo
\* 360, within [0, 360), and sets the shape's colour to the HSL colour of the
\* new hue: no shape's colour stays as it was.
C10_EveryShapeCyclesItsHue ==
  [][ (IsUpdateShapes /\ currentColorPalette \notin PaletteNames) =>
        \A i \in 1..Len(shapes) :
          /\ shapes[i].hue # Undefined
          /\ shapes'[i].hue = (shapes[i].hue + 20) % FullTurn
          /\ shapes'[i].hue >= 0 /\ shapes'[i].hue < FullTurn
          /\ shapes'[i].color = Hsl(shapes'[i].hue)
          /\ shapes'[i].color # shapes[i].color ]_vars

\* The angle between two hues, the short way round.
Arc(a, b) == Min(Abs(a - b), FullTurn - Abs(a - b))

\* C11: interpolateColor takes the hue along the shortest path: for two
\* colours that parse and a factor in [0, 1] the hue it reaches lies in
\* [0, 360) and on the arc of at most 180 degrees between the two hues; from
\* hue 350 to hue 10 at factor 0.5 it is 0.
C11_ShortestHuePath ==
  mixed.hue # Undefined =>
    LET h1 == HexToHsl(mixed.color1).h
        h2 == HexToHsl(mixed.color2).h
    IN  /\ mixed.hue >= 0 /\ mixed.hue < FullTurn
        /\ Arc(h1, h2) <= 18000
        /\ Arc(h1, mixed.hue) + Arc(mixed.hue, h2) = Arc(h1, h2)
        /\ (h1 = 35000 /\ h2 = 1000 /\ mixed.factor = 500) => mixed.hue = 0

C11_Witness ==
  /\ mixed.color1 = Hex(240, 0, 40)
  /\ mixed.color2 = Hex(240, 40, 0)
  /\ HexToHsl(mixed.color1).h = 35000
  /\ HexToHsl(mixed.color2).h = 1000
  /\ mixed.factor = 500
  /\ mixed.hue = 0
  /\ mixed.color = Hex(240, 0, 0)

\* The step of a frame that runs the slice loop, and the steps of a frame.
IsDrawSlices == pc = "slices" /\ pc' # "slices"
IsDrawStep == pc' # pc \/ frames' # frames

\* What a draw call with the slice count numSlices is to have done when it
\* ends: updateShapes once over the whole collection, then for the slices
\* 0, 1, ... in order drawShapes twice over the whole collection, rotated by
\* i * (2 pi / numSlices), the second time flipped.
ExpectedLog ==
  [k \in 1..(2 * numSlices + 1) |->
     IF k = 1 THEN [op |-> "updateShapes", updated |-> ShapeIds]
     ELSE LET i == (k - 2) \div 2
          IN  [op |-> "drawShapes", slice |-> i,
               rotate |-> i * (TwoPi \div numSlices),
               flipped |-> ((k - 2) % 2 = 1), drawn |-> ShapeIds]]

\* C12 for the draw calls in which drawShapes does not throw.
C12_HoldsUnlessDrawShapesThrows ==
  /\ [](pc = "idle" => ctxDepth = 0)
  /\ [][ (IsDrawSlices /\ pc' = "idle") => log' = ExpectedLog ]_vars
  /\ [][ (IsDrawStep /\ ~IsUpdateShapes) => shapes' = shapes ]_vars

\* C12: a draw call advances every shape once, before any shape is drawn,
\* whatever the slice count; then it draws the whole collection twice for
\* every slice in order, rotated by i * (2 pi / N) and the second time
\* flipped; and it leaves the context's stack as deep as it found it.
C12_UpdateOnceThenDrawEverySlice ==
  /\ [](pc \in {"idle", "thrown"} => ctxDepth = 0)
  /\ [][ IsDrawSlices => log' = ExpectedLog ]_vars
  /\ [][ (IsDrawStep /\ ~IsUpdateShapes) => shapes' = shapes ]_vars

\* The identities of the collection's shapes, in the collection's order.
IdsInOrder(seq) == [i \in 1..Len(seq) |-> seq[i].id]

C14_PaletteIndexWithinPalette ==
  /\ Registered(currentColorPalette) =>
       \A i \in 1..Len(shapes) :
         shapes[i].paletteIndex # Undefined =>
           /\ shapes[i].paletteIndex >= 0
           /\ shapes[i].paletteIndex < Len(palettes[currentColorPalette])
           /\ shapes[i].color.kind = "hex"
  /\ pc # "thrown"

=============================================================================
